---- MODULE Spec2Model ----
(***************************************************************************)
(* Model of evals/webvoyager/data/patch_tasks.py: main() loads the patch   *)
(* table from patches.json, streams possibleTasks.jsonl line by line,      *)
(* conditionally rewrites the `ques` field of each task and writes every   *)
(* task to patchedTasks.jsonl, then prints a summary.                      *)
(*                                                                         *)
(* JSON text is modelled as what the parser sees: an object's text is the  *)
(* sequence of its <<key, value>> members in file order (duplicate keys    *)
(* allowed), a Python dict is an insertion-ordered key list plus a value   *)
(* map.  json.loads folds the members into a dict (last value wins, first  *)
(* position kept) and json.dumps writes the dict's members in dict order.  *)
(***************************************************************************)
EXTENDS Naturals, Sequences, FiniteSets, TLC

\* ------------------------------------------------------------------ bounds
MaxLines == 2
MaxPatchPairs == 2

\* ------------------------------------------------------------ input domain
Obj(kv) == [ok |-> TRUE, kv |-> kv]

Garbage == [ok |-> FALSE, kv |-> <<>>]

\* Lines of possibleTasks.jsonl the model draws from: well-formed tasks,
\* a line with a repeated key and an opaque field, a task without `ques`,
\* a task without `id`, and a line that is not JSON.
TaskLines ==
  { Obj(<< <<"id", "t1">>, <<"ques", "A">> >>),
    Obj(<< <<"id", "t1">>, <<"ques", "B">> >>),
    Obj(<< <<"id", "t2">>, <<"web", "W">>, <<"ques", "A">> >>),
    Obj(<< <<"ques", "B">>, <<"id", "t1">>, <<"web", "W">>, <<"ques", "A">> >>),
    Obj(<< <<"id", "t1">>, <<"web", "W">> >>),
    Obj(<< <<"ques", "A">> >>),
    Garbage }

\* Values a key of patches.json maps to: {prev, new} objects (one of them
\* with prev = new), an object without `new`, and a value that is no object.
PatchEntries ==
  { [obj |-> TRUE, kv |-> << <<"prev", "A">>, <<"new", "B">> >>],
    [obj |-> TRUE, kv |-> << <<"prev", "B">>, <<"new", "B">> >>],
    [obj |-> TRUE, kv |-> << <<"prev", "A">> >>],
    [obj |-> FALSE, kv |-> <<>>] }

PatchPairs ==
  { <<"t1", e>> : e \in PatchEntries }
    \cup { <<"t2", [obj |-> TRUE, kv |-> << <<"prev", "A">>, <<"new", "B">> >>]>> }

SeqsUpTo(S, n) == UNION { [1..m -> S] : m \in 0..n }

\* Contents of patches.json: absent, not JSON, or an object.
PatchFiles ==
  { [exists |-> FALSE, ok |-> FALSE, kv |-> <<>>],
    [exists |-> TRUE, ok |-> FALSE, kv |-> <<>>] }
    \cup { [exists |-> TRUE, ok |-> TRUE, kv |-> s] : s \in SeqsUpTo(PatchPairs, MaxPatchPairs) }

\* ------------------------------------------------------------ dict and JSON
EmptyDict == [ord |-> <<>>, val |-> <<>>]

Has(d, k) == k \in DOMAIN d.val

Get(d, k) == d.val[k]

\* dict.__setitem__: an existing key keeps its position, a new key is appended.
Put(d, k, v) ==
  IF Has(d, k)
  THEN [ord |-> d.ord, val |-> [d.val EXCEPT ![k] = v]]
  ELSE [ord |-> Append(d.ord, k), val |-> d.val @@ (k :> v)]

RECURSIVE Loads(_)
\* json.loads of an object's text.
Loads(kv) ==
  IF kv = <<>> THEN EmptyDict
  ELSE LET n == Len(kv)
       IN Put(Loads(SubSeq(kv, 1, n - 1)), kv[n][1], kv[n][2])

\* json.dumps of a dict: members in dict order.
Dumps(d) == [j \in 1..Len(d.ord) |-> <<d.ord[j], d.val[d.ord[j]]>>]

RECURSIVE LoadsTable(_)
\* json.load of patches.json: every value is parsed as well.
LoadsTable(kv) ==
  IF kv = <<>> THEN EmptyDict
  ELSE LET n == Len(kv)
           e == kv[n][2]
       IN Put(LoadsTable(SubSeq(kv, 1, n - 1)), kv[n][1],
              [obj |-> e.obj, d |-> Loads(e.kv)])

\* ------------------------------------------------------- the loop body
\* line 21: task_id in patches
HasPatch(table, task_id) == Has(table, task_id)

MatchesUnverified(task, patch) == TRUE

\* line 24: task['ques'] == patch['prev']
Matches(task, patch) == Get(task, "ques") = Get(patch.d, "prev")

PatchedOnlyIdQues(task, patch) ==
  Put(Put(EmptyDict, "id", Get(task, "id")), "ques", Get(patch.d, "new"))

\* line 25: task['ques'] = patch['new']
Patched(task, patch) == Put(task, "ques", Get(patch.d, "new"))

WarningSwapped(task_id, patch, task) ==
  <<task_id, Get(task, "ques"), Get(patch.d, "prev")>>

\* lines 28-30: the warning names the id, the expected and the found text.
Warning(task_id, patch, task) ==
  <<task_id, Get(patch.d, "prev"), Get(task, "ques")>>

RaiseSkipsLine(count) ==
  [raise |-> FALSE, out |-> <<>>, warn |-> <<>>, count |-> count]

\* An exception raised in the loop body: nothing is caught, so it leaves
\* the loop and main().
Raise(count) ==
  [raise |-> TRUE, out |-> <<>>, warn |-> <<>>, count |-> count]

\* line 33: the text handed to output_file.write.
Emit(task, warn, count) ==
  [raise |-> FALSE, out |-> <<Obj(Dumps(task))>>, warn |-> warn, count |-> count]

\* lines 17-33, one iteration of the loop on one line of the input.
ProcessTask(table, count, line) ==
  IF ~line.ok THEN Raise(count)                          \* json.loads raises
  ELSE LET task == Loads(line.kv) IN
    IF ~Has(task, "id") THEN Raise(count)                \* KeyError 'id'
    ELSE LET task_id == Get(task, "id") IN
      IF ~HasPatch(table, task_id) THEN Emit(task, <<>>, count)
      ELSE LET patch == Get(table, task_id) IN
        IF ~Has(task, "ques") THEN Raise(count)          \* KeyError 'ques'
        ELSE IF ~patch.obj THEN Raise(count)             \* TypeError
        ELSE IF ~Has(patch.d, "prev") THEN Raise(count)  \* KeyError 'prev'
        ELSE IF Matches(task, patch)
          THEN IF ~Has(patch.d, "new") THEN Raise(count) \* KeyError 'new'
               ELSE Emit(Patched(task, patch), <<>>, count + 1)
          ELSE Emit(task, <<Warning(task_id, patch, task)>>, count)

WriteTruncating(out, text) == <<text>>

\* line 33: output_file.write appends to the file opened once at line 14.
Write(out, text) == Append(out, text)

ExitLeaks(f) == f

\* Leaving a `with` block, normally or by an exception, closes the file.
Exit(f) == IF f = "open" THEN "closed" ELSE f

LoadNeverFails(file) == FALSE

\* line 9: json.load raises on text that is not JSON.
LoadFails(file) == ~file.ok

SummaryOfApplied(count, table) == <<count, count>>

\* line 35: patched_count and len(patches).
Summary(count, table) == <<count, Len(table.ord)>>

\* ------------------------------------------------------------------ state
VARIABLES
  patchFile,      \* contents of patches.json
  inputExists,    \* whether possibleTasks.jsonl can be opened
  input,          \* lines of possibleTasks.jsonl
  pc,             \* position of main()
  err,            \* where an exception left main(): none, patches, input, output, line
  fPatch, fIn, fOut,   \* file objects: unopened, open, closed
  patches,        \* the loaded patch table
  patched_count,
  lineno,         \* lines read from input_file so far
  output,         \* lines this run has written to patchedTasks.jsonl
  stderr,         \* warnings printed, each <<id, expected, found>>
  stdout,         \* summaries printed, each <<patched_count, total>>
  rerun,          \* TRUE in a second run, made on the first run's output
  prevInput,      \* the first run's input, kept in the second run
  prevOutput      \* the first run's output, kept in the second run

vars == <<patchFile, inputExists, input, pc, err, fPatch, fIn, fOut, patches,
          patched_count, lineno, output, stderr, stdout, rerun, prevInput, prevOutput>>

files == <<patchFile, inputExists, input, rerun, prevInput, prevOutput>>

Init ==
  /\ patchFile \in PatchFiles
  /\ \/ inputExists = FALSE /\ input = <<>>
     \/ inputExists = TRUE /\ input \in SeqsUpTo(TaskLines, MaxLines)
  /\ pc = "start"
  /\ err = "none"
  /\ fPatch = "unopened" /\ fIn = "unopened" /\ fOut = "unopened"
  /\ patches = EmptyDict
  /\ patched_count = 0
  /\ lineno = 0
  /\ output = <<>>
  /\ stderr = <<>>
  /\ stdout = <<>>
  /\ rerun = FALSE
  /\ prevInput = <<>>
  /\ prevOutput = <<>>

\* line 8: open('patches.json', 'r')
OpenPatches ==
  /\ pc = "start"
  /\ IF patchFile.exists
     THEN fPatch' = "open" /\ pc' = "load" /\ err' = err
     ELSE fPatch' = fPatch /\ pc' = "aborted" /\ err' = "patches"
  /\ UNCHANGED <<files, fIn, fOut, patches, patched_count, lineno, output, stderr, stdout>>

\* lines 9-12: json.load(f), the end of the first `with`, patched_count = 0
LoadPatches ==
  /\ pc = "load"
  /\ fPatch' = Exit(fPatch)
  /\ IF LoadFails(patchFile)
     THEN pc' = "aborted" /\ err' = "patches" /\ UNCHANGED <<patches, patched_count>>
     ELSE /\ patches' = LoadsTable(patchFile.kv)
          /\ patched_count' = 0
          /\ pc' = "openin" /\ err' = err
  /\ UNCHANGED <<files, fIn, fOut, lineno, output, stderr, stdout>>

\* line 13: open('possibleTasks.jsonl', 'r')
OpenInput ==
  /\ pc = "openin"
  /\ IF inputExists
     THEN fIn' = "open" /\ pc' = "openout" /\ err' = err
     ELSE fIn' = fIn /\ pc' = "aborted" /\ err' = "input"
  /\ UNCHANGED <<files, fPatch, fOut, patches, patched_count, lineno, output, stderr, stdout>>

\* line 14: open('patchedTasks.jsonl', 'w'); the open can fail (directory
\* not writable), and then the input file is closed on the way out.
OpenOutput ==
  /\ pc = "openout"
  /\ \E ok \in BOOLEAN :
       IF ok
       THEN fOut' = "open" /\ fIn' = fIn /\ pc' = "loop" /\ err' = err
       ELSE fOut' = fOut /\ fIn' = Exit(fIn) /\ pc' = "aborted" /\ err' = "output"
  /\ UNCHANGED <<files, fPatch, patches, patched_count, lineno, output, stderr, stdout>>

\* lines 16-33: one iteration of `for line in input_file`
ProcessLine ==
  /\ pc = "loop"
  /\ lineno < Len(input)
  /\ lineno' = lineno + 1
  /\ LET r == ProcessTask(patches, patched_count, input[lineno + 1]) IN
       IF r.raise
       THEN /\ pc' = "aborted" /\ err' = "line"
            /\ fIn' = Exit(fIn) /\ fOut' = Exit(fOut)
            /\ UNCHANGED <<patched_count, output, stderr>>
       ELSE /\ pc' = pc /\ err' = err
            /\ patched_count' = r.count
            /\ stderr' = stderr \o r.warn
            /\ output' = IF r.out = <<>> THEN output ELSE Write(output, r.out[1])
            /\ UNCHANGED <<fIn, fOut>>
  /\ UNCHANGED <<files, fPatch, patches, stdout>>

\* lines 16, 33-34: the iterator is exhausted and the second `with` ends
EndOfInput ==
  /\ pc = "loop"
  /\ lineno = Len(input)
  /\ fIn' = Exit(fIn) /\ fOut' = Exit(fOut)
  /\ pc' = "summary"
  /\ UNCHANGED <<files, err, fPatch, patches, patched_count, lineno, output, stderr, stdout>>

\* line 35
PrintSummary ==
  /\ pc = "summary"
  /\ stdout' = Append(stdout, Summary(patched_count, patches))
  /\ pc' = "done"
  /\ UNCHANGED <<files, err, fPatch, fIn, fOut, patches, patched_count, lineno, output, stderr>>

\* lines 38-39: the script is started again, in a fresh process, after
\* patchedTasks.jsonl of the completed run was made its possibleTasks.jsonl.
Rerun ==
  /\ pc = "done"
  /\ ~rerun
  /\ rerun' = TRUE
  /\ prevInput' = input
  /\ prevOutput' = output
  /\ input' = output
  /\ pc' = "start" /\ err' = "none"
  /\ fPatch' = "unopened" /\ fIn' = "unopened" /\ fOut' = "unopened"
  /\ patches' = EmptyDict
  /\ patched_count' = 0
  /\ lineno' = 0
  /\ output' = <<>>
  /\ stderr' = <<>>
  /\ stdout' = <<>>
  /\ UNCHANGED <<patchFile, inputExists>>

Next ==
  \/ OpenPatches
  \/ LoadPatches
  \/ OpenInput
  \/ OpenOutput
  \/ ProcessLine
  \/ EndOfInput
  \/ PrintSummary
  \/ Rerun

Spec == Init /\ [][Next]_vars

\* =================================================================
\* Properties
\* =================================================================

\* ---- vocabulary of the properties, read off the files and the state
InTask(k) == Loads(input[k].kv)

OutTask(k) == Loads(output[k].kv)

\* The line is not JSON, or its record has no `id`.
Malformed(line) == ~line.ok \/ ~Has(Loads(line.kv), "id")

IdOf(line) == Get(Loads(line.kv), "id")

\* The record's id is a key of the patch table.
IdMatch(line) == ~Malformed(line) /\ IdOf(line) \in DOMAIN patches.val

PatchOf(line) == patches.val[IdOf(line)]

\* The patch of the record's id has a `prev` to compare the record's `ques` with.
Comparable(line) ==
  /\ IdMatch(line)
  /\ Has(Loads(line.kv), "ques")
  /\ PatchOf(line).obj
  /\ Has(PatchOf(line).d, "prev")

QuesOf(line) == Get(Loads(line.kv), "ques")

PrevOf(line) == Get(PatchOf(line).d, "prev")

\* id-match and prev-match.
PrevMatch(line) == Comparable(line) /\ QuesOf(line) = PrevOf(line)

\* id-match, but `ques` differs from `prev`.
IsMismatch(line) == Comparable(line) /\ QuesOf(line) # PrevOf(line)

HasNew(line) == IdMatch(line) /\ PatchOf(line).obj /\ Has(PatchOf(line).d, "new")

NewOf(line) == Get(PatchOf(line).d, "new")

\* The record's id is a key whose entry cannot supply the field the code reads.
BadEntryHit(line) ==
  /\ IdMatch(line)
  /\ Has(Loads(line.kv), "ques")
  /\ \/ ~Comparable(line)
     \/ PrevMatch(line) /\ ~HasNew(line)

\* Records whose iteration ran to its end.
Processed == IF err = "line" THEN lineno - 1 ELSE lineno

\* Emitted record k carries patch.new as its `ques`.
EmittedQuesIsNew(k) ==
  /\ HasNew(input[k])
  /\ Has(OutTask(k), "ques")
  /\ Get(OutTask(k), "ques") = NewOf(input[k])

\* Emitted record k has the `ques` of input record k (or, like it, none).
SameQues(k) ==
  /\ Has(OutTask(k), "ques") = Has(InTask(k), "ques")
  /\ Has(InTask(k), "ques") => Get(OutTask(k), "ques") = Get(InTask(k), "ques")

SameId(k) ==
  /\ ~Malformed(input[k])
  /\ Has(OutTask(k), "id")
  /\ Get(OutTask(k), "id") = IdOf(input[k])

\* The table json.load makes of patches.json, when it makes one.
TableOfFile == IF patchFile.ok THEN LoadsTable(patchFile.kv) ELSE EmptyDict

WellFormedEntry(e) == e.obj /\ DOMAIN e.d.val = {"prev", "new"}

PatchLoadFails == ~patchFile.exists \/ ~patchFile.ok

HasMalformedEntry ==
  \E key \in DOMAIN TableOfFile.val : ~WellFormedEntry(TableOfFile.val[key])

\* ---- C1
\* C1 as stated: on a completed run, emitted record i has `ques` equal to
\* patch.new if and only if input record i has id-match and prev-match, and
\* otherwise has the input's `ques`.  Fails for a record that already
\* carries patch.new while prev differs: it is emitted with `ques` equal to
\* patch.new although nothing matched.
C1_QuesIsNewIffMatch ==
  pc = "done" =>
    \A k \in 1..Len(output) :
      /\ EmittedQuesIsNew(k) <=> PrevMatch(input[k])
      /\ ~PrevMatch(input[k]) => SameQues(k)

\* C1 amended: on a completed run, emitted record i has `ques` equal to
\* patch.new if input record i has id-match and prev-match; in every other
\* case the emitted `ques` equals the input `ques`.
C1_QuesRewrittenOnMatch ==
  pc = "done" =>
    \A k \in 1..Len(output) :
      /\ PrevMatch(input[k]) => EmittedQuesIsNew(k)
      /\ ~PrevMatch(input[k]) => SameQues(k)

C1_Witness ==
  /\ pc = "done"
  /\ \E k \in 1..Len(output) :
       PrevMatch(input[k]) /\ Get(OutTask(k), "ques") # QuesOf(input[k])
  /\ \E k \in 1..Len(output) : IsMismatch(input[k])

\* ---- C2
\* C2: the output always holds one record per processed input record, with
\* the same ids in the same order, and on completion one per input record.
C2_OrderPreserved ==
  /\ Len(output) = Processed
  /\ Len(output) <= Len(input)
  /\ \A k \in 1..Len(output) : k <= Len(input) /\ SameId(k)
  /\ pc = "done" => Len(output) = Len(input)

C2_Witness ==
  /\ pc = "done"
  /\ Len(output) = MaxLines
  /\ Get(OutTask(1), "id") # Get(OutTask(2), "id")

\* ---- C3
\* C3: every field other than `ques` is emitted as it was read, and a record
\* whose id is not a key of the patch table is emitted with the same fields
\* and values, with or without a `ques`.
C3_OtherFieldsUntouched ==
  \A k \in 1..Len(output) :
    /\ \A key \in (DOMAIN InTask(k).val \cup DOMAIN OutTask(k).val) \ {"ques"} :
         /\ Has(InTask(k), key) /\ Has(OutTask(k), key)
         /\ Get(OutTask(k), key) = Get(InTask(k), key)
    /\ ~IdMatch(input[k]) => OutTask(k).val = InTask(k).val

C3_Witness ==
  /\ \E k \in 1..Len(output) :
       /\ PrevMatch(input[k])
       /\ Has(InTask(k), "web")
       /\ Get(OutTask(k), "ques") # QuesOf(input[k])
  /\ \E k \in 1..Len(output) : ~IdMatch(input[k]) /\ ~Has(InTask(k), "ques")

\* ---- C4
\* C4: an iteration on a record with id-match whose `ques` differs from
\* `prev` prints exactly one warning <<id, prev, ques>>, writes the record
\* unmodified, leaves patched_count alone and stays in the loop; no other
\* step of a run prints a warning.
C4_MismatchNonFatal ==
  [][ IF pc = "loop" /\ lineno < Len(input) /\ IsMismatch(input[lineno + 1])
      THEN LET line == input[lineno + 1] IN
           /\ stderr' = Append(stderr, <<IdOf(line), PrevOf(line), QuesOf(line)>>)
           /\ Len(output') = Len(output) + 1
           /\ SubSeq(output', 1, Len(output)) = output
           /\ output'[Len(output')].ok
           /\ Loads(output'[Len(output')].kv).val = Loads(line.kv).val
           /\ patched_count' = patched_count
           /\ lineno' = lineno + 1
           /\ pc' = "loop"
      ELSE pc # "done" => stderr' = stderr ]_vars

C4_Witness ==
  /\ pc = "done"
  /\ Len(stderr) = 1
  /\ Len(input) = MaxLines
  /\ IsMismatch(input[1])
  /\ PrevMatch(input[2])

\* ---- C5
\* C5: patched_count is the number of processed records with id-match and
\* prev-match; a summary is printed only on completion, once, after every
\* record was written, with that count and the number of keys of the table.
C5_SummaryCorrect ==
  /\ patched_count = Cardinality({k \in 1..Processed : PrevMatch(input[k])})
  /\ pc # "done" => stdout = <<>>
  /\ pc = "done" =>
       /\ Len(output) = Len(input)
       /\ fOut = "closed"
       /\ stdout = << <<Cardinality({k \in 1..Len(input) : PrevMatch(input[k])}),
                       Cardinality({patchFile.kv[j][1] : j \in DOMAIN patchFile.kv})>> >>

C5_Witness ==
  /\ pc = "done"
  /\ stdout = << <<1, 2>> >>
  /\ Len(patchFile.kv) = MaxPatchPairs

\* ---- C6
\* C6: when line k is not JSON or has no `id`, the run aborts at line k:
\* output holds exactly the records of lines 1..k-1, no later line is read
\* and no summary is printed.
C6_MalformedLineFatal ==
  \A k \in 1..Len(input) :
    Malformed(input[k]) =>
      /\ lineno <= k
      /\ Len(output) < k
      /\ stdout = <<>>
      /\ pc \notin {"summary", "done"}
      /\ lineno = k =>
           /\ pc = "aborted" /\ err = "line"
           /\ Len(output) = k - 1
           /\ \A j \in 1..(k - 1) : SameId(j)

C6_Witness ==
  /\ err = "line"
  /\ lineno = 2
  /\ Malformed(input[2])
  /\ Len(output) = 1

\* ---- C7
\* C7 as stated: a missing or unparseable patch file, or a table with an
\* entry not of the form {prev, new}, aborts the run before any record is
\* emitted, and the run never completes with a summary.  Fails for the
\* entries: they are read only when a record with their key is processed.
C7_MalformedTableAbortsEarly ==
  (PatchLoadFails \/ HasMalformedEntry) =>
    /\ output = <<>>
    /\ stdout = <<>>
    /\ pc \notin {"summary", "done"}

\* C7 amended: a missing or unparseable patch file aborts the run before
\* the input is opened, so nothing is emitted and no summary is printed; an
\* entry that cannot supply the field read aborts the run at the record
\* that reads it, after the records before it were emitted.
C7_PatchFileFatalEntriesLazy ==
  /\ PatchLoadFails =>
       /\ pc \in {"start", "load", "aborted"}
       /\ pc = "aborted" => err = "patches"
       /\ fIn = "unopened" /\ fOut = "unopened"
       /\ output = <<>> /\ stdout = <<>>
  /\ \A k \in 1..lineno :
       BadEntryHit(input[k]) =>
         /\ lineno = k
         /\ pc = "aborted" /\ err = "line"
         /\ Len(output) = k - 1

C7_Witness ==
  /\ err = "line"
  /\ lineno = 2
  /\ BadEntryHit(input[2])
  /\ Len(output) = 1

\* ---- C8
\* C8: once a run has left the `with` blocks, by completion or by any
\* exception, no file is open and every file that was opened is closed.
C8_FilesReleased ==
  /\ pc \in {"aborted", "summary", "done"} =>
       fPatch # "open" /\ fIn # "open" /\ fOut # "open"
  /\ pc \in {"summary", "done"} =>
       fPatch = "closed" /\ fIn = "closed" /\ fOut = "closed"
  /\ err = "line" => fPatch = "closed" /\ fIn = "closed" /\ fOut = "closed"
  /\ err = "output" => fPatch = "closed" /\ fIn = "closed" /\ fOut = "unopened"
  /\ err = "input" => fPatch = "closed" /\ fIn = "unopened" /\ fOut = "unopened"
  /\ (err = "patches" /\ patchFile.exists) => fPatch = "closed"

C8_Witness ==
  /\ pc = "aborted"
  /\ err = "line"
  /\ fIn = "closed" /\ fOut = "closed"
  /\ Len(output) = 1

\* ---- C9
\* C9: the patched_count of the summary never exceeds its total.
C9_AppliedWithinTotal ==
  \A j \in DOMAIN stdout : stdout[j][1] <= stdout[j][2]

\* ---- C10
\* C10: a second run on the first run's output, with the same patch table,
\* writes that output again line for line; every record the first run
\* patched with prev # new is warned about in the second run, and the
\* second run counts only the records patched with prev = new.
C10_Idempotent ==
  (rerun /\ pc = "done") =>
    /\ output = prevOutput
    /\ \A k \in 1..Len(prevInput) :
         (PrevMatch(prevInput[k]) /\ PrevOf(prevInput[k]) # NewOf(prevInput[k])) =>
           /\ IsMismatch(input[k])
           /\ \E j \in DOMAIN stderr :
                stderr[j] = <<IdOf(prevInput[k]), PrevOf(prevInput[k]), NewOf(prevInput[k])>>
    /\ patched_count =
         Cardinality({k \in 1..Len(prevInput) :
                        PrevMatch(prevInput[k]) /\ PrevOf(prevInput[k]) = NewOf(prevInput[k])})

C10_Witness ==
  /\ rerun
  /\ pc = "done"
  /\ prevOutput # prevInput
  /\ \E k \in 1..Len(prevInput) :
       PrevMatch(prevInput[k]) /\ PrevOf(prevInput[k]) # NewOf(prevInput[k])
  /\ \E k \in 1..Len(prevInput) :
       PrevMatch(prevInput[k]) /\ PrevOf(prevInput[k]) = NewOf(prevInput[k])

====
